---- MODULE Spec2Model ----
(***************************************************************************)
(* SignageFlow: the shared screen record (pairing code, playlist, online   *)
(* flag) behind its row-level security policies, the display client        *)
(* (DisplayClientPage: pairing, playlist fetch and subscription, playback) *)
(* and the owner's console: the screen editor (ScreenEditorPage) with its  *)
(* preview, the routes behind the auth store (App, ProtectedRoute,         *)
(* useAuth) and the upload handlers (ScreenCard, MediaLibraryPage).        *)
(*                                                                         *)
(* Every await of a handler is a step boundary: the store executes one     *)
(* statement atomically, and the continuation that follows it up to the    *)
(* next request is folded into the step that executes that next request    *)
(* or, when it ends the handler, into a step of its own.  A React state    *)
(* update, the re-render and the effects it triggers are one step.  The    *)
(* upload handlers are one step each: they read only their closure (the    *)
(* card's screen prop, the user) and the objects and rows they add are     *)
(* read by no other step, so their awaits commute with every other step.   *)
(***************************************************************************)
EXTENDS Integers, Sequences, FiniteSets, TLC

----------------------------------------------------------------------------
(* Bounds *)

MaxLen == 2        \* longest working playlist the editor builds
MaxInbox == 1      \* change notifications in flight to one display
MaxIssues == 2     \* pairing codes issued per screen
MaxUploads == 2     \* upload handler runs
MaxAdvances == 5   \* advances counted on one display

----------------------------------------------------------------------------
(* Values *)

NULL == "null"                       \* null screen id / absent session
NoCode == <<>>                       \* SQL NULL in screens.pairing_code
Owner == "U1"
NaN == -1                            \* the JavaScript number NaN (no index is negative)

Screens == {"S1", "S2"}
Displays == {"D1", "D2"}
Editors == {"E1", "E2", "E3"}
Consoles == {"B1", "B2"}             \* browsers that open the owner console

\* the screen whose editor page (route screens/:screenId) session e has open:
\* E1 and E3 are two sessions of the owner on the same screen
editorScreenId == [e \in Editors |-> IF e = "E2" THEN "S2" ELSE "S1"]

LowerChars == <<"a", "b", "c", "d", "x", "y", "z", "w">>
UpperChars == <<"A", "B", "C", "D", "X", "Y", "Z", "W">>

\* String.prototype.toUpperCase on one character
toUpperChar(c) ==
  IF \E i \in DOMAIN LowerChars : LowerChars[i] = c
  THEN UpperChars[CHOOSE i \in DOMAIN LowerChars : LowerChars[i] = c]
  ELSE c

\* String.prototype.toUpperCase
toUpperCase(str) == [i \in DOMAIN str |-> toUpperChar(str[i])]

\* generatePairingCode (lib/utils): a fixed-length alphanumeric code, as in
\* the scenario "AB12CD"
generatePairingCode ==
  { <<"A", "B", "1", "2", "C", "D">>, <<"X", "Y", "3", "4", "Z", "W">> }

\* what is typed into the pairing form (required, maxLength 6)
EnteredCodes ==
  { <<"A", "B", "1", "2", "C", "D">>,
    <<"a", "b", "1", "2", "c", "d">>,
    <<"x", "Y", "3", "4", "z", "W">> }

\* rows of the media table an owner can add; duration 0 is null
\* mime_type is <<type, subtype>>
MediaLibrary ==
  { [file_path |-> "img5.png", mime_type |-> <<"image", "png">>, duration |-> 5],
    [file_path |-> "clip.mp4", mime_type |-> <<"video", "mp4">>, duration |-> 0] }

\* rows of the media table as uploads leave them: the dropzone accepts every
\* file type
UploadedMedia ==
  MediaLibrary \cup
  { [file_path |-> "doc.pdf", mime_type |-> <<"application", "pdf">>, duration |-> 0] }

\* mime_type?.startsWith('video/')
startsWithVideo(mime) == mime[1] = "video"
\* mime_type?.startsWith('image/')
startsWithImage(mime) == mime[1] = "image"

----------------------------------------------------------------------------
VARIABLES
  screens,          \* the screens table: id -> row
  epoch,            \* history: number of codes issued on each screen so far
  lastIssued,       \* history: the code most recently issued on each screen
  channels,         \* realtime: established subscriptions of each display
  joining,          \* realtime: subscriptions requested, not yet established
  inbox,            \* realtime: notifications in flight to each display
  session,          \* the auth session of the display's browser: the /pair
                    \* route is served with or without one, so the client
                    \* acts as the anon role or as the signed-in owner
  localStorage,     \* signageflow_screen_id of the display's browser
  pc,               \* where the display's async handler is suspended
  data,             \* result of the awaited select in handlePairing
  fetched,          \* result of the awaited select in fetchPlaylistAndSubscribe
  redeemed,         \* history: epoch of the code the display's lookup matched
  pairingCode,      \* useState pairingCode (the form input)
  screenId,         \* useState screenId
  playlist,         \* useState playlist
  currentItemIndex, \* useState currentItemIndex
  mediaUrl,         \* useState mediaUrl
  timers,           \* pending setTimeout callbacks of the media player effect
  toast,            \* last toast shown by the display
  edPlaylist,       \* editor: useState playlist (the working copy)
  edPairingCode,    \* editor: useState pairingCode (shown in the modal)
  edToast,          \* editor: last toast shown
  advances,         \* history: advances of the display's index since it was
                    \* last set to 0 (counted by the playback specification)
  lastCommit,       \* history: the editor session whose commit the store
                    \* applied last to each screen
  supaSession,      \* console browser: the session the auth client holds
  authSession,      \* console browser: auth store, session
  authLoading,      \* console browser: auth store, loading
  path,             \* console browser: the location the router is at
  cardPlaylist,     \* console browser: playlist of each screen in the screens
                    \* list that ScreensPage fetched (the ScreenCard prop)
  storageObjects,   \* the media bucket: paths of the stored files
  mediaRows,        \* the media table: file_path of each row
  uploads,          \* number of files handed to an upload handler so far
  edPreviewIndex,   \* editor: useState currentPreviewIndex
  edPreviewTimer    \* editor: whether the preview effect's timer is pending

storeVars == <<screens, epoch, lastIssued>>
rtVars == <<channels, joining, inbox>>
pairVars == <<localStorage, pc, data, fetched, redeemed, pairingCode, screenId>>
playVars == <<playlist, currentItemIndex, mediaUrl, timers>>
edVars == <<edPlaylist, edPairingCode, edToast>>
histVars == <<advances, lastCommit>>
authVars == <<supaSession, authSession, authLoading, path>>
cardVars == <<cardPlaylist, storageObjects, mediaRows, uploads>>
previewVars == <<edPreviewIndex, edPreviewTimer>>
consoleVars == <<authVars, cardVars, previewVars>>
vars == <<storeVars, rtVars, session, pairVars, playVars, toast, edVars, histVars,
          consoleVars>>

NoFetch == [ok |-> FALSE, playlist |-> <<>>]

----------------------------------------------------------------------------
(* The store: row-level security and change notifications *)

\* CREATE POLICY "User can manage own screens" ... FOR ALL USING (auth.uid() = user_id)
\* CREATE POLICY "Anyone can read screen by pairing_code" ... FOR SELECT USING (pairing_code IS NOT NULL)
CanSelect(uid, row) == uid = row.user_id \/ row.pairing_code # NoCode

\* only the FOR ALL policy covers UPDATE
CanUpdate(uid, row) == uid = row.user_id

\* an UPDATE of row s is announced to every established subscription on s
\* whose client may read the new row image
Broadcast(s, row) ==
  [d \in Displays |->
     IF s \in channels[d] /\ CanSelect(session[d], row)
     THEN Append(inbox[d], [screen |-> s, playlist |-> row.playlist])
     ELSE inbox[d]]

\* bound: a write waits while a subscriber's inbox is full
Room(s) == \A d \in Displays : s \in channels[d] => Len(inbox[d]) < MaxInbox

\* pairing_code TEXT UNIQUE
UniqueViolation(s, code) ==
  \E o \in Screens \ {s} : screens[o].pairing_code = code

----------------------------------------------------------------------------
(* Display client: media player effect *)

\* setTimeout callback scheduled by the effect for (pl, i)
NewTimer(pl, i) ==
  [forPlaylist |-> pl, forIndex |-> i,
   ms |-> (IF pl[i].duration # 0 THEN pl[i].duration ELSE 10) * 1000]

\* variant: the effect returns no cleanup
EffectCleanup_None(ts, oldPl, oldI) == ts

\* cleanup of the effect run for (oldPl, oldI): clearTimeout(timer)
EffectCleanup(ts, oldPl, oldI) ==
  { t \in ts : ~(t.forPlaylist = oldPl /\ t.forIndex = oldI) }

\* variant: the effect schedules the advance for videos too
EffectTimers_AnyType(ts, pl, i) ==
  IF Len(pl) = 0 THEN ts
  ELSE IF i \notin DOMAIN pl THEN ts
  ELSE ts \cup {NewTimer(pl, i)}

\* the effect body for (pl, i): timers it leaves pending
EffectTimers(ts, pl, i) ==
  IF Len(pl) = 0 THEN ts
  ELSE IF i \notin DOMAIN pl THEN ts
  ELSE IF ~startsWithVideo(pl[i].mime_type) THEN ts \cup {NewTimer(pl, i)}
  ELSE ts

\* the effect body for (pl, i): mediaUrl it leaves
EffectUrl(url, pl, i) ==
  IF Len(pl) = 0 THEN NULL
  ELSE IF i \notin DOMAIN pl THEN url
  ELSE pl[i].file_path

\* useEffect(..., [playlist, currentItemIndex]) after display d's state became
\* (pl, i), with ts the callbacks still pending: cleanup of the previous run,
\* then the body.  Index i is 0-based as in the source, sequences are 1-based.
MediaPlayerEffect(d, ts, pl, i) ==
  /\ timers' = [timers EXCEPT ![d] =
       EffectTimers(EffectCleanup(ts, playlist[d], currentItemIndex[d] + 1), pl, i + 1)]
  /\ mediaUrl' = [mediaUrl EXCEPT ![d] = EffectUrl(@, pl, i + 1)]

----------------------------------------------------------------------------
(* Screen editor: preview effect *)

\* the preview effect body for (pl, i): whether it leaves a timer pending
\* (i is 0-based)
PreviewTimer(pl, i) ==
  /\ i + 1 \in DOMAIN pl
  /\ ~startsWithVideo(pl[i + 1].mime_type)

\* useEffect(..., [playlist, currentPreviewIndex]) after editor e's state
\* became (pl, i): the cleanup clears the timer of the previous run, then the
\* body runs
PreviewEffect(e, pl, i) ==
  edPreviewTimer' = [edPreviewTimer EXCEPT ![e] = PreviewTimer(pl, i)]

----------------------------------------------------------------------------
\* the console browsers before the application has loaded, and the editors'
\* previews as their effect leaves them
ConsoleInit ==
  /\ supaSession = [b \in Consoles |-> NULL]
  /\ authSession = [b \in Consoles |-> NULL]
  /\ authLoading = [b \in Consoles |-> TRUE]
  /\ path = [b \in Consoles |-> "/"]
  /\ cardPlaylist = [b \in Consoles |-> <<>>]
  /\ storageObjects = {}
  /\ mediaRows = {}
  /\ uploads = 0
  /\ edPreviewIndex = [e \in Editors |-> 0]
  /\ edPreviewTimer = [e \in Editors |-> PreviewTimer(edPlaylist[e], 0)]

\* the store, the displays and the editors before anything has happened
StoreInit ==
  /\ screens = [s \in Screens |->
       [user_id |-> Owner, pairing_code |-> NoCode, playlist |-> <<>>, is_online |-> FALSE]]
  /\ epoch = [s \in Screens |-> 0]
  /\ lastIssued = [s \in Screens |-> NoCode]
  /\ channels = [d \in Displays |-> {}]
  /\ joining = [d \in Displays |-> {}]
  /\ inbox = [d \in Displays |-> <<>>]
  /\ session \in [Displays -> {NULL, Owner}]
  /\ localStorage = [d \in Displays |-> NULL]
  /\ pc = [d \in Displays |-> "idle"]
  /\ data = [d \in Displays |-> NULL]
  /\ fetched = [d \in Displays |-> NoFetch]
  /\ redeemed = [d \in Displays |-> 0]
  /\ pairingCode = [d \in Displays |-> <<>>]
  /\ screenId = [d \in Displays |-> NULL]
  /\ playlist = [d \in Displays |-> <<>>]
  /\ currentItemIndex = [d \in Displays |-> 0]
  /\ mediaUrl = [d \in Displays |-> NULL]
  /\ timers = [d \in Displays |-> {}]
  /\ toast = [d \in Displays |-> "none"]
  /\ edPlaylist = [e \in Editors |-> <<>>]
  /\ edPairingCode = [e \in Editors |-> NoCode]
  /\ edToast = [e \in Editors |-> "none"]
  /\ advances = [d \in Displays |-> 0]
  /\ lastCommit = [s \in Screens |-> NULL]

Init == StoreInit /\ ConsoleInit

----------------------------------------------------------------------------
(* Display client: handlePairing *)

\* variant: the lookup without its eq('pairing_code', key) filter
LookupByCode_NoFilter(uid, key) ==
  { s \in Screens : CanSelect(uid, screens[s]) }

\* .select('id').eq('pairing_code', key).single() as seen by uid
LookupByCode(uid, key) ==
  { s \in Screens : CanSelect(uid, screens[s]) /\ screens[s].pairing_code = key }

\* submit of the pairing form with the typed code, and the awaited select.
\* The form is rendered only while screenId is null and the button is
\* disabled while loading.  On error the handler ends here; on a match the
\* success toast is shown and the invalidating update is issued next.
HandlePairingLookup(d, code) ==
  /\ pc[d] = "idle"
  /\ screenId[d] = NULL
  /\ pairingCode' = [pairingCode EXCEPT ![d] = code]
  /\ LET found == LookupByCode(session[d], toUpperCase(code)) IN
       IF Cardinality(found) # 1
       THEN /\ toast' = [toast EXCEPT ![d] = "invalid"]
            /\ UNCHANGED <<pc, data, redeemed>>
       ELSE LET s == CHOOSE x \in found : TRUE IN
            /\ toast' = [toast EXCEPT ![d] = "paired"]
            /\ data' = [data EXCEPT ![d] = s]
            /\ redeemed' = [redeemed EXCEPT ![d] = epoch[s]]
            /\ pc' = [pc EXCEPT ![d] = "invalidate"]
  /\ UNCHANGED <<storeVars, rtVars, session, histVars, consoleVars, localStorage, fetched, screenId,
                 playVars, edVars>>

\* await supabase.from('screens').update({ pairing_code: null }).eq('id', data.id)
\* executed by the store under the display's session; its result is ignored
HandlePairingInvalidate(d) ==
  /\ pc[d] = "invalidate"
  /\ LET s == data[d]
         row == [screens[s] EXCEPT !.pairing_code = NoCode] IN
       IF CanUpdate(session[d], screens[s])
       THEN /\ Room(s)
            /\ screens' = [screens EXCEPT ![s] = row]
            /\ inbox' = Broadcast(s, row)
       ELSE UNCHANGED <<screens, inbox>>
  /\ pc' = [pc EXCEPT ![d] = "bind"]
  /\ UNCHANGED <<epoch, lastIssued, channels, joining, session, histVars, consoleVars, localStorage,
                 data, fetched, redeemed, pairingCode, screenId, playVars,
                 toast, edVars>>

\* variant: the binding is kept in memory only
SetItem_Nothing(stored, id) == stored

\* localStorage.setItem('signageflow_screen_id', data.id)
SetItem(stored, id) == id

\* localStorage.setItem(...); setScreenId(data.id); setLoading(false); the
\* [screenId] effect then starts fetchPlaylistAndSubscribe
HandlePairingBind(d) ==
  /\ pc[d] = "bind"
  /\ localStorage' = [localStorage EXCEPT ![d] = SetItem(@, data[d])]
  /\ screenId' = [screenId EXCEPT ![d] = data[d]]
  /\ data' = [data EXCEPT ![d] = NULL]
  /\ pc' = [pc EXCEPT ![d] = "online"]
  /\ UNCHANGED <<storeVars, rtVars, session, histVars, consoleVars, fetched, redeemed,
                 pairingCode, playVars, toast, edVars>>

----------------------------------------------------------------------------
(* Display client: fetchPlaylistAndSubscribe *)

\* await supabase.from('screens').update({ is_online: true }).eq('id', screenId)
FetchSetOnline(d) ==
  /\ pc[d] = "online"
  /\ LET s == screenId[d]
         row == [screens[s] EXCEPT !.is_online = TRUE] IN
       IF CanUpdate(session[d], screens[s])
       THEN /\ Room(s)
            /\ screens' = [screens EXCEPT ![s] = row]
            /\ inbox' = Broadcast(s, row)
       ELSE UNCHANGED <<screens, inbox>>
  /\ pc' = [pc EXCEPT ![d] = "select"]
  /\ UNCHANGED <<epoch, lastIssued, channels, joining, session, histVars, consoleVars, localStorage,
                 data, fetched, redeemed, pairingCode, screenId, playVars,
                 toast, edVars>>

\* .select('playlist').eq('id', screenId).single() executed by the store
FetchSelect(d) ==
  /\ pc[d] = "select"
  /\ LET s == screenId[d] IN
       fetched' = [fetched EXCEPT ![d] =
         IF CanSelect(session[d], screens[s])
         THEN [ok |-> TRUE, playlist |-> screens[s].playlist]
         ELSE NoFetch]
  /\ pc' = [pc EXCEPT ![d] = "apply"]
  /\ UNCHANGED <<storeVars, rtVars, session, histVars, consoleVars, localStorage, data, redeemed,
                 pairingCode, screenId, playVars, toast, edVars>>

\* variant: the unpair step leaves the stored binding
RemoveItem_Keeps(stored) == stored

\* localStorage.removeItem('signageflow_screen_id')
RemoveItem(stored) == NULL

\* the continuation after the select: unpair on error, else setPlaylist;
\* then, in both branches, channel(...).on(...).subscribe() for the screenId
\* of the closure.  The function returned at the end is the result of the
\* async function, not of the effect, so nothing ever calls it.
FetchApply(d) ==
  /\ pc[d] = "apply"
  /\ IF ~fetched[d].ok
     THEN /\ toast' = [toast EXCEPT ![d] = "unpairing"]
          /\ localStorage' = [localStorage EXCEPT ![d] = RemoveItem(@)]
          /\ screenId' = [screenId EXCEPT ![d] = NULL]
          /\ redeemed' = [redeemed EXCEPT ![d] = 0]
          /\ UNCHANGED playVars
     ELSE /\ playlist' = [playlist EXCEPT ![d] = fetched[d].playlist]
          /\ MediaPlayerEffect(d, timers[d], fetched[d].playlist, currentItemIndex[d])
          /\ UNCHANGED <<toast, localStorage, screenId, redeemed, currentItemIndex>>
  /\ joining' = [joining EXCEPT ![d] = @ \cup {screenId[d]}]
  /\ fetched' = [fetched EXCEPT ![d] = NoFetch]
  /\ pc' = [pc EXCEPT ![d] = "idle"]
  /\ UNCHANGED <<storeVars, channels, inbox, session, histVars, consoleVars, data, pairingCode, edVars>>

\* the realtime server establishes a requested subscription
ChannelJoined(d, s) ==
  /\ s \in joining[d]
  /\ joining' = [joining EXCEPT ![d] = @ \ {s}]
  /\ channels' = [channels EXCEPT ![d] = @ \cup {s}]
  /\ UNCHANGED <<storeVars, inbox, session, histVars, consoleVars, pairVars, playVars, toast, edVars>>

\* variant: the callback keeps the playback position
ResetIndex_Keeps(prev) == prev

\* setCurrentItemIndex(0) in the postgres_changes callback
ResetIndex(prev) == 0

\* the postgres_changes UPDATE callback
OnPostgresChanges(d) ==
  /\ inbox[d] # <<>>
  /\ LET newPlaylist == Head(inbox[d]).playlist
         newIndex == ResetIndex(currentItemIndex[d]) IN
       /\ toast' = [toast EXCEPT ![d] = "updated"]
       /\ playlist' = [playlist EXCEPT ![d] = newPlaylist]
       /\ currentItemIndex' = [currentItemIndex EXCEPT ![d] = newIndex]
       /\ MediaPlayerEffect(d, timers[d], newPlaylist, newIndex)
  /\ inbox' = [inbox EXCEPT ![d] = Tail(@)]
  /\ UNCHANGED <<storeVars, channels, joining, session, histVars, consoleVars, pairVars, edVars>>

----------------------------------------------------------------------------
(* Display client: playback *)

\* variant: the advance without the wrap-around
AdvanceIndex_NoWrap(prev, length) == prev + 1

\* (prev) => (prev + 1) % playlist.length on JavaScript numbers: the
\* remainder by 0 is NaN, and NaN + 1 is NaN
AdvanceIndex(prev, length) ==
  IF prev = NaN \/ length = 0 THEN NaN ELSE (prev + 1) % length

\* setCurrentItemIndex((prev) => (prev + 1) % length) with ts the callbacks
\* still pending: React re-renders and re-runs the effect only when the value
\* changed
SetCurrentItemIndexAdvance(d, ts, length) ==
  LET next == AdvanceIndex(currentItemIndex[d], length) IN
    /\ currentItemIndex' = [currentItemIndex EXCEPT ![d] = next]
    /\ IF next # currentItemIndex[d]
       THEN MediaPlayerEffect(d, ts, playlist[d], next)
       ELSE /\ timers' = [timers EXCEPT ![d] = ts]
            /\ UNCHANGED mediaUrl

\* a pending setTimeout callback runs; playlist.length is the closure's
TimerFired(d, t) ==
  /\ t \in timers[d]
  /\ SetCurrentItemIndexAdvance(d, timers[d] \ {t}, Len(t.forPlaylist))
  /\ UNCHANGED <<storeVars, rtVars, session, lastCommit, consoleVars, pairVars, playlist, toast, edVars>>

\* the <video> element is rendered only in the bound branch, for a non-empty
\* playlist, a set mediaUrl and a current item of a video type
VideoRendered(d) ==
  /\ screenId[d] # NULL
  /\ Len(playlist[d]) # 0
  /\ currentItemIndex[d] + 1 \in DOMAIN playlist[d]
  /\ mediaUrl[d] # NULL
  /\ startsWithVideo(playlist[d][currentItemIndex[d] + 1].mime_type)

\* const handleVideoEnded = () => setCurrentItemIndex(...), with the
\* playlist of the current render
handleVideoEnded(d) ==
  /\ SetCurrentItemIndexAdvance(d, timers[d], Len(playlist[d]))
  /\ UNCHANGED <<storeVars, rtVars, session, lastCommit, consoleVars, pairVars, playlist, toast, edVars>>

\* onEnded={handleVideoEnded} of the rendered <video>
onEnded(d) == VideoRendered(d) /\ handleVideoEnded(d)

\* history: the step is counted as one advance of display d's index
Counted(d) ==
  /\ advances[d] < MaxAdvances
  /\ advances' = [advances EXCEPT ![d] = @ + 1]

\* the display's page is reloaded: component state, timers, pending handlers
\* and the realtime connection are gone, local storage stays; the mount
\* effect restores screenId and the [screenId] effect starts the fetch
Restart(d) ==
  /\ LET stored == localStorage[d] IN
       /\ screenId' = [screenId EXCEPT ![d] = stored]
       /\ pc' = [pc EXCEPT ![d] = IF stored # NULL THEN "online" ELSE "idle"]
       /\ redeemed' = [redeemed EXCEPT ![d] = IF stored # NULL THEN @ ELSE 0]
  /\ pairingCode' = [pairingCode EXCEPT ![d] = <<>>]
  /\ data' = [data EXCEPT ![d] = NULL]
  /\ fetched' = [fetched EXCEPT ![d] = NoFetch]
  /\ playlist' = [playlist EXCEPT ![d] = <<>>]
  /\ currentItemIndex' = [currentItemIndex EXCEPT ![d] = 0]
  /\ mediaUrl' = [mediaUrl EXCEPT ![d] = NULL]
  /\ timers' = [timers EXCEPT ![d] = {}]
  /\ toast' = [toast EXCEPT ![d] = "none"]
  /\ channels' = [channels EXCEPT ![d] = {}]
  /\ joining' = [joining EXCEPT ![d] = {}]
  /\ inbox' = [inbox EXCEPT ![d] = <<>>]
  /\ UNCHANGED <<storeVars, session, histVars, consoleVars, localStorage, edVars>>

----------------------------------------------------------------------------
(* Owner console: ScreenEditorPage *)

\* duration: media.duration || (media.mime_type?.startsWith('image/') ? 10 : 30)
PlaylistItemOf(media) ==
  [media EXCEPT !.duration =
     IF media.duration # 0 THEN media.duration
     ELSE IF startsWithImage(media.mime_type) THEN 10 ELSE 30]

\* variant: the append is written to the screen record at once
addToPlaylist_Persisted(e, media) ==
  /\ Len(edPlaylist[e]) < MaxLen
  /\ edPlaylist' = [edPlaylist EXCEPT ![e] = Append(@, PlaylistItemOf(media))]
  /\ edToast' = [edToast EXCEPT ![e] = "added"]
  /\ screens' = [screens EXCEPT ![editorScreenId[e]].playlist = edPlaylist'[e]]
  /\ PreviewEffect(e, edPlaylist'[e], edPreviewIndex[e])
  /\ UNCHANGED <<epoch, lastIssued, rtVars, session, histVars, authVars, cardVars,
                 edPreviewIndex, pairVars, playVars, toast, edPairingCode>>

addToPlaylist(e, media) ==
  /\ Len(edPlaylist[e]) < MaxLen
  /\ edPlaylist' = [edPlaylist EXCEPT ![e] = Append(@, PlaylistItemOf(media))]
  /\ edToast' = [edToast EXCEPT ![e] = "added"]
  /\ PreviewEffect(e, edPlaylist'[e], edPreviewIndex[e])
  /\ UNCHANGED <<storeVars, rtVars, session, histVars, authVars, cardVars,
                 edPreviewIndex, pairVars, playVars, toast, edPairingCode>>

\* prev.filter((_, i) => i !== index), for an index of a rendered row
Without(seq, index) ==
  [i \in 1..(Len(seq) - 1) |-> IF i < index THEN seq[i] ELSE seq[i + 1]]

removeFromPlaylist(e, index) ==
  /\ index + 1 \in DOMAIN edPlaylist[e]
  /\ edPlaylist' = [edPlaylist EXCEPT ![e] = Without(@, index + 1)]
  /\ edToast' = [edToast EXCEPT ![e] = "removed"]
  /\ PreviewEffect(e, edPlaylist'[e], edPreviewIndex[e])
  /\ UNCHANGED <<storeVars, rtVars, session, histVars, authVars, cardVars,
                 edPreviewIndex, pairVars, playVars, toast, edPairingCode>>

\* variant: the write appends the working copy to the stored playlist
CommitRow_Merged(row, pl) == [row EXCEPT !.playlist = @ \o pl]

\* the row after update({ playlist })
CommitRow(row, pl) == [row EXCEPT !.playlist = pl]

\* update({ playlist }).eq('id', screenId) as the owner, and the toast; ok
\* is whether the store accepted the write
savePlaylist(e, ok) ==
  LET s == editorScreenId[e]
      row == CommitRow(screens[s], edPlaylist[e]) IN
    /\ IF ok
       THEN /\ Room(s)
            /\ screens' = [screens EXCEPT ![s] = row]
            /\ inbox' = Broadcast(s, row)
            /\ edToast' = [edToast EXCEPT ![e] = "saved"]
            /\ lastCommit' = [lastCommit EXCEPT ![s] = e]
       ELSE /\ edToast' = [edToast EXCEPT ![e] = "save failed"]
            /\ UNCHANGED <<screens, inbox, lastCommit>>
    /\ UNCHANGED <<epoch, lastIssued, channels, joining, session, advances, consoleVars,
                   pairVars, playVars, toast, edPlaylist, edPairingCode>>

\* variant: the read drops the first item
PlaylistOf_Tail(row) == IF row.playlist = <<>> THEN <<>> ELSE Tail(row.playlist)

\* screenData.playlist || []
PlaylistOf(row) == row.playlist

\* the editor page is opened (or reloaded): its state starts afresh and the
\* mount effect runs fetchScreen, select('*').eq('id', screenId).single() as
\* the owner; ok is whether the store answered
fetchScreen(e, ok) ==
  /\ edPlaylist' = [edPlaylist EXCEPT ![e] =
       IF ok THEN PlaylistOf(screens[editorScreenId[e]]) ELSE <<>>]
  /\ edPairingCode' = [edPairingCode EXCEPT ![e] = NoCode]
  /\ edToast' = [edToast EXCEPT ![e] = IF ok THEN "none" ELSE "fetch failed"]
  /\ edPreviewIndex' = [edPreviewIndex EXCEPT ![e] = 0]
  /\ PreviewEffect(e, edPlaylist'[e], 0)
  /\ UNCHANGED <<storeVars, rtVars, session, histVars, authVars, cardVars, pairVars,
                 playVars, toast>>

\* variant: the inserted element replaces the one at pos
InsertAt_Overwrites(seq, pos, x) ==
  [i \in 1..Len(seq) |-> IF i = pos THEN x ELSE seq[i]]

\* one insertion of the sort: x goes to position pos of the sorted prefix
InsertAt(seq, pos, x) ==
  [i \in 1..(Len(seq) + 1) |->
     IF i < pos THEN seq[i] ELSE IF i = pos THEN x ELSE seq[i - 1]]

\* [...prev].sort(() => Math.random() - 0.5) applied to the first k items:
\* the insertion sort used for short arrays, where each comparison answers at
\* random, so each element may be inserted at any position of the prefix
RECURSIVE SortRandom(_, _)
SortRandom(prev, k) ==
  IF k = 0 THEN { <<>> }
  ELSE { InsertAt(sorted, pos, prev[k]) :
           sorted \in SortRandom(prev, k - 1), pos \in 1..k }

shufflePlaylist(e) ==
  /\ \E shuffled \in SortRandom(edPlaylist[e], Len(edPlaylist[e])) :
       edPlaylist' = [edPlaylist EXCEPT ![e] = shuffled]
  /\ edToast' = [edToast EXCEPT ![e] = "shuffled"]
  /\ PreviewEffect(e, edPlaylist'[e], edPreviewIndex[e])
  /\ UNCHANGED <<storeVars, rtVars, session, histVars, authVars, cardVars,
                 edPreviewIndex, pairVars, playVars, toast, edPairingCode>>

\* variant: an unredeemed code is kept instead of being overwritten
IssueRow_KeepsUnredeemed(row, newCode) ==
  IF row.pairing_code # NoCode THEN row
  ELSE [row EXCEPT !.pairing_code = newCode]

\* the row after update({ pairing_code: newCode })
IssueRow(row, newCode) == [row EXCEPT !.pairing_code = newCode]

\* variant: the dialog is opened with the new code whatever the outcome
ShownCode_Always(error, prev, newCode) == newCode

\* setPairingCode(newCode) in the branch without error
ShownCode(error, prev, newCode) == IF error THEN prev ELSE newCode

\* generatePairingCode(), update({ pairing_code: newCode }).eq('id', screenId)
\* as the owner; the write fails when the store does not accept it (ok) or
\* when the UNIQUE constraint rejects a code another screen holds
handleShowPairingCode(e, newCode, ok) ==
  LET s == editorScreenId[e]
      row == IssueRow(screens[s], newCode)
      error == ~ok \/ UniqueViolation(s, newCode) IN
    /\ epoch[s] < MaxIssues
    /\ IF error
       THEN /\ edToast' = [edToast EXCEPT ![e] = "failed"]
            /\ UNCHANGED <<storeVars, inbox>>
       ELSE /\ Room(s)
            /\ screens' = [screens EXCEPT ![s] = row]
            /\ inbox' = Broadcast(s, row)
            /\ epoch' = [epoch EXCEPT ![s] = @ + 1]
            /\ lastIssued' = [lastIssued EXCEPT ![s] = newCode]
            /\ UNCHANGED edToast
    /\ edPairingCode' = [edPairingCode EXCEPT ![e] = ShownCode(error, @, newCode)]
    /\ UNCHANGED <<channels, joining, session, histVars, consoleVars, pairVars, playVars, toast, edPlaylist>>

----------------------------------------------------------------------------
(* Specifications *)

DisplayPairing(d) ==
  \/ \E code \in EnteredCodes : HandlePairingLookup(d, code)
  \/ HandlePairingInvalidate(d)
  \/ HandlePairingBind(d)

DisplayFetch(d) ==
  \/ FetchSetOnline(d)
  \/ FetchSelect(d)
  \/ FetchApply(d)
  \/ \E s \in Screens : ChannelJoined(d, s)
  \/ OnPostgresChanges(d)

DisplayPlayback(d) ==
  \/ \E t \in timers[d] : TimerFired(d, t) /\ UNCHANGED advances
  \/ onEnded(d) /\ UNCHANGED advances

\* setCurrentPreviewIndex(next) of editor e: an unchanged value re-renders
\* nothing and re-runs no effect, so a timer that has fired is not replaced
SetCurrentPreviewIndex(e, next, pending) ==
  /\ edPreviewIndex' = [edPreviewIndex EXCEPT ![e] = next]
  /\ IF next # edPreviewIndex[e]
     THEN PreviewEffect(e, edPlaylist[e], next)
     ELSE edPreviewTimer' = [edPreviewTimer EXCEPT ![e] = pending]

\* onClick={() => setCurrentPreviewIndex(index)} of a playlist row
PreviewSelect(e, index) ==
  /\ index + 1 \in DOMAIN edPlaylist[e]
  /\ SetCurrentPreviewIndex(e, index, edPreviewTimer[e])
  /\ UNCHANGED <<storeVars, rtVars, session, histVars, authVars, cardVars, pairVars,
                 playVars, toast, edVars>>

\* the preview's pending setTimeout callback runs
PreviewTimerFired(e) ==
  /\ edPreviewTimer[e]
  /\ SetCurrentPreviewIndex(e, AdvanceIndex(edPreviewIndex[e], Len(edPlaylist[e])), FALSE)
  /\ UNCHANGED <<storeVars, rtVars, session, histVars, authVars, cardVars, pairVars,
                 playVars, toast, edVars>>

\* the preview's <video> is rendered for a current item of a video type
PreviewVideoRendered(e) ==
  /\ edPreviewIndex[e] + 1 \in DOMAIN edPlaylist[e]
  /\ startsWithVideo(edPlaylist[e][edPreviewIndex[e] + 1].mime_type)

\* onEnded={handleVideoEnded} of the preview's <video>
PreviewVideoEnded(e) ==
  /\ PreviewVideoRendered(e)
  /\ SetCurrentPreviewIndex(e, AdvanceIndex(edPreviewIndex[e], Len(edPlaylist[e])),
                            edPreviewTimer[e])
  /\ UNCHANGED <<storeVars, rtVars, session, histVars, authVars, cardVars, pairVars,
                 playVars, toast, edVars>>

\* the editor's preview pane
EditorPreview(e) ==
  \/ PreviewVideoEnded(e)
  \/ \E index \in 0..(MaxLen - 1) : PreviewSelect(e, index)
  \/ PreviewTimerFired(e)

----------------------------------------------------------------------------
(* Owner console: routes and the auth store *)

Paths ==
  {"/login", "/pair", "/pairing-instructions", "/", "/media", "/screens",
   "/screens/:screenId", "/settings"}

\* what a route renders: a page component, or <Navigate to=...>
Element(name) == [element |-> name, to |-> ""]
Navigate(to) == [element |-> "Navigate", to |-> to]

\* the children of the "/" route
ConsolePage(p) ==
  CASE p = "/" -> Element("DashboardPage")
    [] p = "/media" -> Element("MediaLibraryPage")
    [] p = "/screens" -> Element("ScreensPage")
    [] p = "/screens/:screenId" -> Element("ScreenEditorPage")
    [] p = "/settings" -> Element("ProfilePage")

ConsolePages == {ConsolePage(p) : p \in Paths \ {"/login", "/pair", "/pairing-instructions"}}

ProtectedRoute_NoSessionCheck(loading, sess, outlet) ==
  IF loading THEN Element("Loading...") ELSE outlet

\* ProtectedRoute: placeholder while loading, redirect without a session,
\* the layout with the child page otherwise
ProtectedRoute(loading, sess, outlet) ==
  IF loading THEN Element("Loading...")
  ELSE IF sess = NULL THEN Navigate("/login")
  ELSE outlet

\* App with the router it creates, at location p
App(loading, sess, p) ==
  IF loading THEN Element("Loading application...")
  ELSE CASE p = "/login" -> IF sess # NULL THEN Navigate("/") ELSE Element("LoginPage")
         [] p = "/pair" -> Element("DisplayClientPage")
         [] p = "/pairing-instructions" -> Element("PairingInstructionsPage")
         [] OTHER -> ProtectedRoute(loading, sess, ConsolePage(p))

\* what console b's browser shows
Rendered(b) == App(authLoading[b], authSession[b], path[b])

\* leaving the screens page unmounts it: its list of screens is gone
ScreensPageState(b, p) ==
  IF p = path[b] THEN cardPlaylist[b] ELSE <<>>

\* getSession().then(...) of the useAuth effect: the client's stored session
\* goes to the store and loading ends
getSession(b) ==
  /\ authLoading[b]
  /\ authSession' = [authSession EXCEPT ![b] = supaSession[b]]
  /\ authLoading' = [authLoading EXCEPT ![b] = FALSE]
  /\ UNCHANGED <<storeVars, rtVars, session, histVars, supaSession, path, cardVars,
                 previewVars, pairVars, playVars, toast, edVars>>

\* the onAuthStateChange callback with the session of the event (a sign-in,
\* a sign-out or expiry elsewhere)
onAuthStateChange(b, sess) ==
  /\ supaSession' = [supaSession EXCEPT ![b] = sess]
  /\ authSession' = [authSession EXCEPT ![b] = sess]
  /\ authLoading' = [authLoading EXCEPT ![b] = FALSE]
  /\ UNCHANGED <<storeVars, rtVars, session, histVars, path, cardVars, previewVars,
                 pairVars, playVars, toast, edVars>>

\* Header.handleLogout in the console layout: signOut() ends the session,
\* its event reaches the store, then navigate('/login'); on an error only a
\* toast
handleLogout(b, ok) ==
  /\ Rendered(b) \in ConsolePages
  /\ ok
  /\ supaSession' = [supaSession EXCEPT ![b] = NULL]
  /\ authSession' = [authSession EXCEPT ![b] = NULL]
  /\ path' = [path EXCEPT ![b] = "/login"]
  /\ cardPlaylist' = [cardPlaylist EXCEPT ![b] = ScreensPageState(b, "/login")]
  /\ UNCHANGED <<storeVars, rtVars, session, histVars, authLoading, storageObjects,
                 mediaRows, uploads, previewVars, pairVars, playVars, toast, edVars>>

\* a link or the address bar takes the loaded application to location p
NavigateTo(b, p) ==
  /\ path' = [path EXCEPT ![b] = p]
  /\ cardPlaylist' = [cardPlaylist EXCEPT ![b] = ScreensPageState(b, p)]
  /\ UNCHANGED <<storeVars, rtVars, session, histVars, supaSession, authSession,
                 authLoading, storageObjects, mediaRows, uploads, previewVars,
                 pairVars, playVars, toast, edVars>>

\* a rendered <Navigate> changes the location
Redirect(b) ==
  /\ Rendered(b).element = "Navigate"
  /\ path' = [path EXCEPT ![b] = Rendered(b).to]
  /\ cardPlaylist' = [cardPlaylist EXCEPT ![b] = ScreensPageState(b, Rendered(b).to)]
  /\ UNCHANGED <<storeVars, rtVars, session, histVars, supaSession, authSession,
                 authLoading, storageObjects, mediaRows, uploads, previewVars,
                 pairVars, playVars, toast, edVars>>

\* the page is loaded anew at location p: the store starts empty and
\* loading, the client keeps its stored session
Reload(b, p) ==
  /\ path' = [path EXCEPT ![b] = p]
  /\ authSession' = [authSession EXCEPT ![b] = NULL]
  /\ authLoading' = [authLoading EXCEPT ![b] = TRUE]
  /\ cardPlaylist' = [cardPlaylist EXCEPT ![b] = <<>>]
  /\ UNCHANGED <<storeVars, rtVars, session, histVars, supaSession, storageObjects,
                 mediaRows, uploads, previewVars, pairVars, playVars, toast, edVars>>

ConsoleAuth(b) ==
  \/ getSession(b)
  \/ \E sess \in {NULL, Owner} : onAuthStateChange(b, sess)
  \/ \E ok \in BOOLEAN : handleLogout(b, ok)
  \/ \E p \in Paths : NavigateTo(b, p)
  \/ Redirect(b)
  \/ \E p \in Paths : Reload(b, p)

----------------------------------------------------------------------------
(* Owner console: uploads *)

\* the files a user drops: name and type
DroppedFiles ==
  {[name |-> "a.png", type |-> <<"image", "png">>],
   [name |-> "b.mp4", type |-> <<"video", "mp4">>]}

\* `${user.id}/${Date.now()}-${file.name}` for the handler run at time now
filePath(uid, now, file) == uid \o "/" \o ToString(now) \o "-" \o file.name

\* the row inserted into the media table
MediaRow(uid, now, file) ==
  [user_id |-> uid, file_path |-> filePath(uid, now, file), mime_type |-> file.type]

\* newPlaylistItem of ScreenCard.onDrop: id, name, file_path and mime_type of
\* the new media row, no duration
newPlaylistItem(newMedia) ==
  [file_path |-> newMedia.file_path, mime_type |-> newMedia.mime_type, duration |-> 0]

\* ScreensPage.fetchScreens: the owner's screens become the cards' props; on
\* an error the list stays
fetchScreens(b, ok) ==
  /\ Rendered(b) = Element("ScreensPage")
  /\ ok
  /\ cardPlaylist' =
       [cardPlaylist EXCEPT
          ![b] = [s \in {t \in Screens : screens[t].user_id = authSession[b]} |->
                    screens[s].playlist]]
  /\ UNCHANGED <<storeVars, rtVars, session, histVars, authVars, storageObjects,
                 mediaRows, uploads, previewVars, pairVars, playVars, toast, edVars>>

\* ScreenCard.onDrop of screen s's card in console b, with the step that
\* fails ("none" when all three succeed): the upload, the media insert, then
\* the update of the playlist column with the card's screen prop plus the
\* new item; the catch only shows a toast
CardDrop(b, s, file, failing) ==
  LET now == uploads + 1
      newMedia == MediaRow(authSession[b], now, file)
      row == [screens[s] EXCEPT
                !.playlist = Append(cardPlaylist[b][s], newPlaylistItem(newMedia))] IN
    /\ Rendered(b) = Element("ScreensPage")
    /\ s \in DOMAIN cardPlaylist[b]
    /\ uploads < MaxUploads
    /\ uploads' = now
    /\ storageObjects' =
         IF failing = "upload" THEN storageObjects
         ELSE storageObjects \cup {newMedia.file_path}
    /\ mediaRows' =
         IF failing \in {"upload", "insert"} THEN mediaRows
         ELSE mediaRows \cup {newMedia}
    /\ IF failing = "none"
       THEN /\ Room(s)
            /\ screens' = [screens EXCEPT ![s] = row]
            /\ inbox' = Broadcast(s, row)
            /\ lastCommit' = [lastCommit EXCEPT ![s] = b]
       ELSE UNCHANGED <<screens, inbox, lastCommit>>
    /\ UNCHANGED <<epoch, lastIssued, channels, joining, session, advances, authVars,
                   cardPlaylist, previewVars, pairVars, playVars, toast, edVars>>

\* MediaLibraryPage.onDrop in console b: every accepted file is uploaded and
\* then given a media row, each on its own; failing gives for each file the
\* step that fails; the catch only shows a toast
LibraryDrop(b, acceptedFiles, failing) ==
  LET now == uploads + 1 IN
    /\ Rendered(b) = Element("MediaLibraryPage")
    /\ acceptedFiles # {}
    /\ uploads < MaxUploads
    /\ uploads' = now
    /\ storageObjects' =
         storageObjects \cup
           {filePath(authSession[b], now, file) :
              file \in {f \in acceptedFiles : failing[f] # "upload"}}
    /\ mediaRows' =
         mediaRows \cup
           {MediaRow(authSession[b], now, file) :
              file \in {f \in acceptedFiles : failing[f] = "none"}}
    /\ UNCHANGED <<storeVars, rtVars, session, histVars, authVars, cardPlaylist,
                   previewVars, pairVars, playVars, toast, edVars>>

ConsoleUploads(b) ==
  \/ \E ok \in BOOLEAN : fetchScreens(b, ok)
  \/ \E s \in Screens : \E file \in DroppedFiles :
       \E failing \in {"upload", "insert", "update", "none"} :
         CardDrop(b, s, file, failing)
  \/ \E acceptedFiles \in SUBSET DroppedFiles :
       \E failing \in [acceptedFiles -> {"upload", "insert", "none"}] :
         LibraryDrop(b, acceptedFiles, failing)
  \/ \E p \in {"/media", "/screens"} : NavigateTo(b, p)

EditorPlaylist(e) ==
  \/ \E media \in MediaLibrary : addToPlaylist(e, media)
  \/ \E index \in 0..(MaxLen - 1) : removeFromPlaylist(e, index)
  \/ \E ok \in BOOLEAN : savePlaylist(e, ok)

EditorPage(e) ==
  \/ \E ok \in BOOLEAN : fetchScreen(e, ok)
  \/ shufflePlaylist(e)
  \/ \E media \in UploadedMedia : addToPlaylist(e, media)

EditorPairing(e) ==
  \E newCode \in generatePairingCode : \E ok \in BOOLEAN :
    handleShowPairingCode(e, newCode, ok)

\* the editor's steps while the store accepts every write
EditorPlaylistAccepted(e) ==
  \/ \E media \in MediaLibrary : addToPlaylist(e, media)
  \/ \E index \in 0..(MaxLen - 1) : removeFromPlaylist(e, index)
  \/ savePlaylist(e, TRUE)

EditorPairingAccepted(e) ==
  \E newCode \in generatePairingCode : handleShowPairingCode(e, newCode, TRUE)

Next ==
  \/ \E d \in Displays : DisplayPairing(d) \/ DisplayFetch(d) \/ DisplayPlayback(d) \/ Restart(d)
  \/ \E e \in Editors : EditorPlaylist(e) \/ EditorPage(e) \/ EditorPairing(e)

Spec == Init /\ [][Next]_vars

\* redemption: both displays against the codes issued on screen S1; the
\* playlists stay empty and the store accepts the owner's writes
NextPairing ==
  \/ \E d \in Displays : DisplayPairing(d)
  \/ \E d \in Displays : DisplayFetch(d)
  \/ \E d \in Displays : Restart(d)
  \/ EditorPairingAccepted("E1")

SpecPairing == Init /\ [][NextPairing]_vars

\* issuing: display D1 against the codes issued on both screens
InitIssue == Init /\ session["D2"] = NULL

NextIssue ==
  \/ DisplayPairing("D1")
  \/ DisplayFetch("D1")
  \/ Restart("D1")
  \/ \E e \in {"E1", "E2"} : EditorPairingAccepted(e)

SpecIssue == InitIssue /\ [][NextIssue]_vars

\* playback and propagation: display D1 and the editor of screen S1
InitSync == Init /\ session["D2"] = NULL

NextSync ==
  \/ HandlePairingLookup("D1", <<"a", "b", "1", "2", "c", "d">>)
  \/ HandlePairingInvalidate("D1")
  \/ HandlePairingBind("D1")
  \/ DisplayFetch("D1")
  \/ DisplayPlayback("D1")
  \/ Restart("D1")
  \/ EditorPlaylistAccepted("E1")
  \/ handleShowPairingCode("E1", <<"A", "B", "1", "2", "C", "D">>, TRUE)

SpecSync == InitSync /\ [][NextSync]_vars

\* the owner's console without displays
InitConsole == Init /\ session = [d \in Displays |-> NULL]

\* one editor session on screen S1: editing, commit, pairing code, with
\* writes the store may reject, and re-opening of the page
NextCommit ==
  \/ EditorPlaylist("E1")
  \/ EditorPage("E1")
  \/ EditorPairing("E1")

SpecCommit == InitConsole /\ [][NextCommit]_vars

\* two editor sessions of the owner on the same screen S1
NextEditor ==
  \E e \in {"E1", "E3"} :
    \/ EditorPlaylist(e)
    \/ \E ok \in BOOLEAN : fetchScreen(e, ok)

SpecEditor == InitConsole /\ [][NextEditor]_vars

\* two editors working on their playlists with the preview running
NextPreview ==
  \E e \in {"E1", "E2"} :
    \/ EditorPreview(e)
    \/ \E media \in MediaLibrary : addToPlaylist(e, media)
    \/ \E index \in 0..(MaxLen - 1) : removeFromPlaylist(e, index)
    \/ shufflePlaylist(e)

SpecPreview == InitConsole /\ [][NextPreview]_vars

\* the console browsers loading, signing in and out and moving between routes
NextAuth == \E b \in Consoles : ConsoleAuth(b)

SpecAuth == Init /\ [][NextAuth]_vars

\* two console browsers, signed in as the owner, on the screens page
InitCards ==
  /\ StoreInit
  /\ session = [d \in Displays |-> NULL]
  /\ supaSession = [b \in Consoles |-> Owner]
  /\ authSession = [b \in Consoles |-> Owner]
  /\ authLoading = [b \in Consoles |-> FALSE]
  /\ path = [b \in Consoles |-> "/screens"]
  /\ cardPlaylist = [b \in Consoles |-> <<>>]
  /\ storageObjects = {}
  /\ mediaRows = {}
  /\ uploads = 0
  /\ edPreviewIndex = [e \in Editors |-> 0]
  /\ edPreviewTimer = [e \in Editors |-> FALSE]

NextCards == \E b \in Consoles : ConsoleUploads(b)

SpecCards == InitCards /\ [][NextCards]_vars

\* the playlist committed on screen S2 in the re-pairing specification
OtherPlaylist ==
  << [file_path |-> "img5.png", mime_type |-> <<"image", "png">>, duration |-> 5] >>

\* re-pairing: the code AB12CD of screen S1 was redeemed by display D1
\* (unauthenticated) and display D2 (signed in as the owner) together; D2
\* cleared the code, so D1's first fetch failed and D1 unpaired, keeping the
\* subscription that the failed fetch still opened.  Since then D2 was
\* reloaded, the owner issued AB12CD on S1 again and, on screen S2,
\* committed a one-item playlist and issued XY34ZW.
InitRebind ==
  /\ screens = [s \in Screens |->
       IF s = "S1"
       THEN [user_id |-> Owner, pairing_code |-> <<"A", "B", "1", "2", "C", "D">>,
             playlist |-> <<>>, is_online |-> TRUE]
       ELSE [user_id |-> Owner, pairing_code |-> <<"X", "Y", "3", "4", "Z", "W">>,
             playlist |-> OtherPlaylist, is_online |-> FALSE]]
  /\ epoch = [s \in Screens |-> IF s = "S1" THEN 2 ELSE 1]
  /\ lastIssued = [s \in Screens |-> screens[s].pairing_code]
  /\ channels = [d \in Displays |-> IF d = "D1" THEN {"S1"} ELSE {}]
  /\ joining = [d \in Displays |-> {}]
  /\ inbox = [d \in Displays |-> <<>>]
  /\ session = [d \in Displays |-> IF d = "D1" THEN NULL ELSE Owner]
  /\ localStorage = [d \in Displays |-> IF d = "D1" THEN NULL ELSE "S1"]
  /\ pc = [d \in Displays |-> IF d = "D1" THEN "idle" ELSE "online"]
  /\ data = [d \in Displays |-> NULL]
  /\ fetched = [d \in Displays |-> NoFetch]
  /\ redeemed = [d \in Displays |-> IF d = "D1" THEN 0 ELSE 1]
  /\ pairingCode = [d \in Displays |->
       IF d = "D1" THEN <<"a", "b", "1", "2", "c", "d">> ELSE <<>>]
  /\ screenId = [d \in Displays |-> IF d = "D1" THEN NULL ELSE "S1"]
  /\ playlist = [d \in Displays |-> <<>>]
  /\ currentItemIndex = [d \in Displays |-> 0]
  /\ mediaUrl = [d \in Displays |-> NULL]
  /\ timers = [d \in Displays |-> {}]
  /\ toast = [d \in Displays |-> IF d = "D1" THEN "unpairing" ELSE "none"]
  /\ edPlaylist = [e \in Editors |-> IF e = "E2" THEN OtherPlaylist ELSE <<>>]
  /\ edPairingCode = [e \in Editors |->
       IF e = "E3" THEN NoCode ELSE screens[editorScreenId[e]].pairing_code]
  /\ edToast = [e \in Editors |-> IF e = "E2" THEN "saved" ELSE "none"]
  /\ advances = [d \in Displays |-> 0]
  /\ lastCommit = [s \in Screens |-> IF s = "S1" THEN NULL ELSE "E2"]
  /\ ConsoleInit

\* D1 plays what its leftover subscription delivers and redeems the code of
\* S2, while the owner edits and commits the playlist of S1
NextRebind ==
  \/ HandlePairingLookup("D1", <<"x", "Y", "3", "4", "z", "W">>)
  \/ HandlePairingInvalidate("D1")
  \/ HandlePairingBind("D1")
  \/ DisplayFetch("D1")
  \/ DisplayPlayback("D1")
  \/ EditorPlaylistAccepted("E1")

SpecRebind == InitRebind /\ [][NextRebind]_vars

\* an item appended by ScreenCard's onDrop carries no duration
DroppedItem ==
  [file_path |-> "drop.png", mime_type |-> <<"image", "png">>, duration |-> 0]

\* items a persisted playlist is made of
PlayerItems == { PlaylistItemOf(media) : media \in MediaLibrary } \cup {DroppedItem}

\* the playlists of at most n items
PlaylistsUpTo(n) == UNION { [1..k -> PlayerItems] : k \in 0..n }

\* playback of a fixed playlist: display D1, as anon or signed in as the
\* owner, has redeemed the code of screen S1 (cleared and flagged online
\* only by an owner's session), fetched the screen's playlist pl and
\* subscribed; the player effect has run for (pl, 0)
InitPlayer ==
  \E pl \in PlaylistsUpTo(MaxLen) : \E uid \in {NULL, Owner} :
    /\ screens = [s \in Screens |->
         IF s = "S1"
         THEN [user_id |-> Owner,
               pairing_code |-> IF uid = Owner THEN NoCode
                                ELSE <<"A", "B", "1", "2", "C", "D">>,
               playlist |-> pl, is_online |-> uid = Owner]
         ELSE [user_id |-> Owner, pairing_code |-> NoCode,
               playlist |-> <<>>, is_online |-> FALSE]]
    /\ epoch = [s \in Screens |-> IF s = "S1" THEN 1 ELSE 0]
    /\ lastIssued = [s \in Screens |->
         IF s = "S1" THEN <<"A", "B", "1", "2", "C", "D">> ELSE NoCode]
    /\ channels = [d \in Displays |-> IF d = "D1" THEN {"S1"} ELSE {}]
    /\ joining = [d \in Displays |-> {}]
    /\ inbox = [d \in Displays |-> <<>>]
    /\ session = [d \in Displays |-> IF d = "D1" THEN uid ELSE NULL]
    /\ localStorage = [d \in Displays |-> IF d = "D1" THEN "S1" ELSE NULL]
    /\ pc = [d \in Displays |-> "idle"]
    /\ data = [d \in Displays |-> NULL]
    /\ fetched = [d \in Displays |-> NoFetch]
    /\ redeemed = [d \in Displays |-> IF d = "D1" THEN 1 ELSE 0]
    /\ pairingCode = [d \in Displays |->
         IF d = "D1" THEN <<"a", "b", "1", "2", "c", "d">> ELSE <<>>]
    /\ screenId = [d \in Displays |-> IF d = "D1" THEN "S1" ELSE NULL]
    /\ playlist = [d \in Displays |-> IF d = "D1" THEN pl ELSE <<>>]
    /\ currentItemIndex = [d \in Displays |-> 0]
    /\ mediaUrl = [d \in Displays |-> IF d = "D1" THEN EffectUrl(NULL, pl, 1) ELSE NULL]
    /\ timers = [d \in Displays |-> IF d = "D1" THEN EffectTimers({}, pl, 1) ELSE {}]
    /\ toast = [d \in Displays |-> IF d = "D1" THEN "paired" ELSE "none"]
    /\ edPlaylist = [e \in Editors |-> IF e = "E1" THEN pl ELSE <<>>]
    /\ edPairingCode = [e \in Editors |->
         IF e = "E1" THEN <<"A", "B", "1", "2", "C", "D">> ELSE NoCode]
    /\ edToast = [e \in Editors |-> IF e = "E1" THEN "saved" ELSE "none"]
    /\ advances = [d \in Displays |-> 0]
    /\ lastCommit = [s \in Screens |-> IF s = "S1" THEN "E1" ELSE NULL]
    /\ ConsoleInit

\* the advances of D1: its timer callbacks and calls of its ended handler,
\* each counted
NextPlayer ==
  \/ \E t \in timers["D1"] : TimerFired("D1", t) /\ Counted("D1")
  \/ handleVideoEnded("D1") /\ Counted("D1")

SpecPlayer == InitPlayer /\ [][NextPlayer]_vars

----------------------------------------------------------------------------
(* Pairing code lifecycle *)

\* display d holds a binding that it redeemed with the k-th code of screen s
BoundBy(d, s, k) == localStorage[d] = s /\ redeemed[d] = k

\* C1: two displays that redeem the same issued pairing code never both end
\* up bound: at most one of them stores the screen id as its local binding.
C1_AtMostOneBinds ==
  \A d1, d2 \in Displays : \A s \in Screens : \A k \in 1..(MaxIssues + 1) :
    (BoundBy(d1, s, k) /\ BoundBy(d2, s, k)) => d1 = d2

\* C2: once a display has redeemed a screen's pairing code, and until a new
\* code is issued on that screen, the screen's pairing_code is null.
C2_SingleUse ==
  \A d \in Displays : \A s \in Screens :
    BoundBy(d, s, epoch[s]) => screens[s].pairing_code = NoCode

\* no screen's current pairing code equals the entered code, compared as
\* redemption compares
NoMatch(code) ==
  \A s \in Screens : screens[s].pairing_code # toUpperCase(code)

\* C3: redeeming a code that equals no screen's current pairing code ends
\* with the invalid-code toast, changes no screen record and leaves the
\* display unbound, in memory and in local storage.
C3_InvalidCodeChangesNothing ==
  [][\A d \in Displays : \A code \in EnteredCodes :
       (HandlePairingLookup(d, code) /\ NoMatch(code)) =>
         /\ toast'[d] = "invalid"
         /\ pc'[d] = "idle"
         /\ screens' = screens
         /\ screenId'[d] = NULL
         /\ localStorage'[d] = NULL]_vars

C3_Witness ==
  \E d \in Displays :
    /\ pc[d] = "idle" /\ toast[d] = "invalid"
    /\ pairingCode[d] \in EnteredCodes /\ NoMatch(pairingCode[d])
    /\ screenId[d] = NULL /\ localStorage[d] = NULL
    /\ \E s \in Screens : screens[s].pairing_code # NoCode

\* C4: a display that redeemed by entering a lower-case variant of a screen's
\* code is bound to the screen that code was issued on, and that screen's
\* pairing code is null (until a new code is issued).
C4_CaseInsensitiveRedeem ==
  \A d \in Displays : \A s \in Screens :
    (/\ BoundBy(d, s, epoch[s])
     /\ pairingCode[d] \in EnteredCodes
     /\ pairingCode[d] # toUpperCase(pairingCode[d]))
    => (/\ lastIssued[s] = toUpperCase(pairingCode[d])
        /\ screens[s].pairing_code = NoCode)

\* C5: a screen holds at most one active code, the one issued last: its
\* pairing_code is null or the most recently issued code, and a redemption
\* that finds the screen entered that code.
C5_OnlyLatestCodeRedeems ==
  /\ [](\A s \in Screens : screens[s].pairing_code \in {NoCode, lastIssued[s]})
  /\ [][\A d \in Displays : \A code \in EnteredCodes :
          (HandlePairingLookup(d, code) /\ pc'[d] = "invalidate") =>
            toUpperCase(code) = lastIssued[data'[d]]]_vars

C5_Witness ==
  \E d \in Displays : \E s \in Screens :
    /\ epoch[s] = 2
    /\ pc[d] = "invalidate" /\ data[d] = s /\ redeemed[d] = 2
    /\ toUpperCase(pairingCode[d]) = lastIssued[s]

----------------------------------------------------------------------------
(* Change propagation and playback *)

\* display d is bound, its fetch has run, its subscription to the bound
\* screen is established and nothing is in flight to it
Settled(d) ==
  /\ screenId[d] # NULL
  /\ pc[d] = "idle"
  /\ screenId[d] \in channels[d]
  /\ joining[d] = {}
  /\ inbox[d] = <<>>

\* C6: once a bound display has finished fetching and subscribing and every
\* notification sent to it has been delivered, its playlist is the playlist
\* last committed on its screen, whenever the commits happened.
C6_PlaylistPropagated ==
  \A d \in Displays :
    Settled(d) => playlist[d] = screens[screenId[d]].playlist

\* display d consumes a change notification in this step
NotificationHandled(d) ==
  /\ inbox[d] # <<>>
  /\ inbox'[d] = Tail(inbox[d])
  /\ toast'[d] = "updated"

\* C7: a change notification replaces the display's playlist by the one it
\* carries and leaves the playback index at 0, whatever it was before.
C7_NotificationResetsIndex ==
  [][\A d \in Displays :
       NotificationHandled(d) =>
         /\ playlist'[d] = Head(inbox[d]).playlist
         /\ currentItemIndex'[d] = 0]_vars

C7_Witness ==
  \E d \in Displays :
    /\ toast[d] = "updated"
    /\ Len(playlist[d]) = 2
    /\ currentItemIndex[d] = 0
    /\ screenId[d] # NULL

C9_TornDownOnUnbind ==
  /\ \A d \in Displays :
       (screenId[d] = NULL /\ pc[d] = "idle") =>
         (channels[d] = {} /\ joining[d] = {})
  /\ \A s \in Screens :
       screens[s].is_online => \E d \in Displays : screenId[d] = s

\* the current item of display d is a video
OnVideo(d) ==
  /\ currentItemIndex[d] + 1 \in DOMAIN playlist[d]
  /\ startsWithVideo(playlist[d][currentItemIndex[d] + 1].mime_type)

ScenarioPlaylist ==
  << [file_path |-> "img5.png", mime_type |-> <<"image", "png">>, duration |-> 5],
     [file_path |-> "clip.mp4", mime_type |-> <<"video", "mp4">>, duration |-> 30] >>

\* C10: while the current item is a video no advance timer is pending, and
\* the index then changes only by the ended signal, which moves it to
\* (index + 1) mod length, or by a playlist replacement (or a reload of the
\* page).  On [image 5 s, video] the only timer at index 0 is the 5 s timer,
\* every change of the index from 0 leads to 1 (or to 0 by a replacement),
\* and the index leaves 1 only for 0.
C10_VideoWaitsForEnded ==
  /\ [](\A d \in Displays :
          /\ OnVideo(d) => timers[d] = {}
          /\ (playlist[d] = ScenarioPlaylist /\ currentItemIndex[d] = 0) =>
               \A t \in timers[d] : t.ms = 5000)
  /\ [][\A d \in Displays :
          (OnVideo(d) /\ currentItemIndex'[d] # currentItemIndex[d]) =>
            \/ /\ VideoRendered(d)
               /\ playlist'[d] = playlist[d]
               /\ currentItemIndex'[d] = (currentItemIndex[d] + 1) % Len(playlist[d])
            \/ NotificationHandled(d)
            \/ Restart(d)]_vars
  /\ [][\A d \in Displays :
          (playlist[d] = ScenarioPlaylist /\ playlist'[d] = ScenarioPlaylist) =>
            /\ currentItemIndex[d] = 0 => currentItemIndex'[d] \in {0, 1}
            /\ currentItemIndex[d] = 1 => currentItemIndex'[d] \in {1, 0}]_vars

C10_Witness ==
  \E d \in Displays :
    /\ screenId[d] # NULL
    /\ playlist[d] = ScenarioPlaylist
    /\ currentItemIndex[d] = 1
    /\ timers[d] = {}
    /\ mediaUrl[d] = "clip.mp4"

----------------------------------------------------------------------------
(* Playback of a fixed playlist *)

\* C11: on a fixed playlist of length L > 0 played from index 0, after N
\* advances (timer callbacks and ended signals in any mix) the index is
\* N mod L.
C11_IndexIsAdvancesModLength ==
  \A d \in Displays :
    Len(playlist[d]) > 0 =>
      currentItemIndex[d] = advances[d] % Len(playlist[d])

C11_Witness ==
  \E d \in Displays :
    /\ Len(playlist[d]) = 2
    /\ advances[d] = 3
    /\ currentItemIndex[d] = 1

\* C12: playback of a non-empty playlist never stops: in every state in which
\* a display is bound, has loaded a non-empty playlist and runs no handler,
\* an advance is still to come, that is an advance timer is pending or a
\* video is rendered whose ended signal advances the index.
C12_PlaybackNeverStops ==
  \A d \in Displays :
    (screenId[d] # NULL /\ pc[d] = "idle" /\ Len(playlist[d]) > 0) =>
      (timers[d] # {} \/ VideoRendered(d))

----------------------------------------------------------------------------
(* Owner console: commit *)

\* C14: the commit replaces the persisted playlist as a whole by the
\* working playlist: when the editor page is re-opened right after a
\* successful commit, with no other write in between, the playlist read from
\* the record is the committed working playlist, same items, order and length.
C14_CommitRoundTrip ==
  [][\A e \in Editors :
       (/\ edToast[e] = "saved"
        /\ lastCommit[editorScreenId[e]] = e
        /\ fetchScreen(e, TRUE)) =>
         /\ edPlaylist'[e] = edPlaylist[e]
         /\ Len(edPlaylist'[e]) = Len(edPlaylist[e])]_vars

C14_Witness ==
  /\ lastCommit["S1"] = "E1"
  /\ edToast["E1"] = "none"
  /\ Len(edPlaylist["E1"]) = 2
  /\ edPlaylist["E1"][1] # edPlaylist["E1"][2]
  /\ screens["S1"].playlist = edPlaylist["E1"]

\* the working copy session e committed is still the one it shows, and no
\* commit on its screen was applied after it
LastCommitter(e) ==
  /\ edToast[e] = "saved"
  /\ lastCommit[editorScreenId[e]] = e

\* C15: when two editor sessions on the same screen both commit, the
\* persisted playlist is exactly the working copy of the session whose
\* commit was applied last (last writer wins), never a merge or interleaving
\* of the two.
C15_LastWriterWins ==
  \A e \in Editors :
    LastCommitter(e) => screens[editorScreenId[e]].playlist = edPlaylist[e]

C15_Witness ==
  /\ LastCommitter("E3")
  /\ edToast["E1"] = "saved"
  /\ Len(edPlaylist["E1"]) = 2
  /\ Len(edPlaylist["E3"]) = 1
  /\ edPlaylist["E3"][1] # edPlaylist["E1"][1]
  /\ screens["S1"].playlist = edPlaylist["E3"]

\* C16: when the store rejects the write of a commit or of a pairing-code
\* issue, the persisted playlist and pairing code keep their previous
\* values, the error toast is shown and not the success toast, the dialog
\* does not show the unpersisted code (every code it shows was persisted),
\* and nothing retries: the record changes only in an accepted write of a
\* handler the owner started.
C16_RejectedWriteChangesNothing ==
  /\ [](\A e \in Editors :
          edPairingCode[e] # NoCode =>
            edPairingCode[e] = lastIssued[editorScreenId[e]])
  /\ [][\A e \in Editors :
          savePlaylist(e, FALSE) =>
            /\ screens' = screens
            /\ edToast'[e] = "save failed"
            /\ edPairingCode' = edPairingCode]_vars
  /\ [][\A e \in Editors : \A newCode \in generatePairingCode :
          handleShowPairingCode(e, newCode, FALSE) =>
            /\ screens' = screens
            /\ edToast'[e] = "failed"
            /\ edPairingCode'[e] = edPairingCode[e]]_vars
  /\ [][screens' # screens =>
          \E e \in Editors :
            \/ savePlaylist(e, TRUE)
            \/ \E newCode \in generatePairingCode :
                 handleShowPairingCode(e, newCode, TRUE)]_vars

C16_Witness ==
  /\ edToast["E1"] = "failed"
  /\ edPairingCode["E1"] # NoCode
  /\ screens["S1"].pairing_code = edPairingCode["E1"]
  /\ epoch["S1"] = 1
  /\ Len(screens["S1"].playlist) = 2
  /\ edPlaylist["E1"] # screens["S1"].playlist

----------------------------------------------------------------------------
(* Display client: the stored binding *)

\* display d runs the continuation of a fetch that failed
FetchFailed(d) ==
  /\ pc[d] = "apply"
  /\ ~fetched[d].ok
  /\ FetchApply(d)

\* C17: when the display's fetch of its screen's playlist fails (error or
\* no row), the display clears the binding in memory and in local storage
\* and is back at the pairing form; it is not left bound.
C17_FailedFetchUnbinds ==
  /\ [][\A d \in Displays :
          FetchFailed(d) =>
            /\ toast'[d] = "unpairing"
            /\ screenId'[d] = NULL
            /\ localStorage'[d] = NULL
            /\ pc'[d] = "idle"]_vars
  /\ [](\A d \in Displays :
          toast[d] = "unpairing" =>
            (screenId[d] = NULL /\ localStorage[d] = NULL))

C17_Witness ==
  \E d \in Displays :
    /\ toast[d] = "unpairing"
    /\ pc[d] = "idle"
    /\ screenId[d] = NULL
    /\ localStorage[d] = NULL
    /\ pairingCode[d] \in EnteredCodes

\* C18: the binding is durable: a bound display's stored binding is its
\* screen, a restart keeps it and restores the bound state from it, and the
\* stored binding changes from a screen to empty only in the unpair step of
\* a failed fetch, never through playback, notifications or restarts.
C18_BindingDurable ==
  /\ [](\A d \in Displays :
          screenId[d] # NULL => localStorage[d] = screenId[d])
  /\ [][\A d \in Displays :
          Restart(d) =>
            /\ localStorage'[d] = localStorage[d]
            /\ screenId'[d] = localStorage[d]]_vars
  /\ [][\A d \in Displays :
          (localStorage[d] # NULL /\ localStorage'[d] # localStorage[d]) =>
            (FetchFailed(d) /\ localStorage'[d] = NULL)]_vars

C18_Witness ==
  \E d \in Displays :
    /\ localStorage[d] = "S1"
    /\ screenId[d] = "S1"
    /\ toast[d] = "none"
    /\ pc[d] = "idle"
    /\ "S1" \in channels[d]

----------------------------------------------------------------------------
(* Owner console: editing the working playlist *)

\* number of occurrences of x in seq
Count(seq, x) == Cardinality({ i \in DOMAIN seq : seq[i] = x })

\* C19: shuffle yields a permutation of the working playlist: same length,
\* same items with the same multiplicities; a playlist of at most one item
\* is unchanged.
C19_ShuffleIsPermutation ==
  [][\A e \in Editors :
       shufflePlaylist(e) =>
         /\ Len(edPlaylist'[e]) = Len(edPlaylist[e])
         /\ \A x \in UNION { { pl[i] : i \in DOMAIN pl } : pl \in {edPlaylist[e], edPlaylist'[e]} } :
               Count(edPlaylist'[e], x) = Count(edPlaylist[e], x)
         /\ Len(edPlaylist[e]) <= 1 => edPlaylist'[e] = edPlaylist[e]]_vars

C19_Witness ==
  /\ edToast["E1"] = "shuffled"
  /\ Len(edPlaylist["E1"]) = 2
  /\ edPlaylist["E1"][1] # edPlaylist["E1"][2]
  /\ lastCommit["S1"] = "E1"
  /\ screens["S1"].playlist = <<edPlaylist["E1"][2], edPlaylist["E1"][1]>>

\* C20: append puts the new item at the end of the working playlist and
\* leaves the items before it and their order unchanged; the new item's
\* duration is the media's own duration when set, otherwise 10 seconds for
\* every media whose MIME type is not a video type.
C20_AppendWithDefaultDuration ==
  [][\A e \in Editors : \A media \in UploadedMedia :
       addToPlaylist(e, media) =>
         LET n == Len(edPlaylist[e])
             item == edPlaylist'[e][n + 1] IN
           /\ Len(edPlaylist'[e]) = n + 1
           /\ SubSeq(edPlaylist'[e], 1, n) = edPlaylist[e]
           /\ item.file_path = media.file_path
           /\ media.duration # 0 => item.duration = media.duration
           /\ (media.duration = 0 /\ ~startsWithVideo(media.mime_type)) =>
                item.duration = 10]_vars

----------------------------------------------------------------------------
(* Access to the screen record *)

\* C21: an unauthenticated client reads a screen's record only by means of
\* that screen's pairing code: whenever the store answers a select of an
\* unauthenticated display with a screen's row, the display holds that
\* screen's current code, that is the code it redeemed is the one issued
\* last on the screen.
C21_AnonReadsOnlyByCode ==
  \A d \in Displays :
    (session[d] = NULL /\ pc[d] = "apply" /\ fetched[d].ok) =>
      redeemed[d] = epoch[screenId[d]]

----------------------------------------------------------------------------
(* Owner console: working copy and record *)

\* session e edits its working playlist in this step
LocalEdit(e) ==
  \/ \E media \in UploadedMedia : addToPlaylist(e, media)
  \/ \E index \in 0..(MaxLen - 1) : removeFromPlaylist(e, index)
  \/ shufflePlaylist(e)

\* C22: append, removeAt and shuffle change only the editor's working
\* playlist: such a step leaves the screen records, the notifications in
\* flight and every display's playlist and index unchanged, and a screen's
\* persisted playlist changes only in a commit.
C22_EditsAreLocal ==
  /\ [][\A e \in Editors :
          LocalEdit(e) =>
            /\ screens' = screens
            /\ inbox' = inbox
            /\ playlist' = playlist
            /\ currentItemIndex' = currentItemIndex]_vars
  /\ [][\A s \in Screens :
          screens'[s].playlist # screens[s].playlist =>
            \E e \in Editors : editorScreenId[e] = s /\ savePlaylist(e, TRUE)]_vars

C22_Witness ==
  /\ edToast["E1"] = "removed"
  /\ Len(edPlaylist["E1"]) = 0
  /\ Len(screens["S1"].playlist) = 2
  /\ lastCommit["S1"] = "E1"

----------------------------------------------------------------------------
(* Display client: after the redemption *)

\* C26: after a successful redemption an unauthenticated display stays
\* bound: the continuation of its first fetch, the one started by the
\* binding, does not clear the binding again.
C26_FirstFetchKeepsBinding ==
  [][\A d \in Displays :
       (/\ session[d] = NULL
        /\ toast[d] = "paired"
        /\ pc[d] = "apply"
        /\ FetchApply(d)) =>
         /\ screenId'[d] = screenId[d]
         /\ localStorage'[d] = localStorage[d]]_vars

\* C28: an update of the screen record that does not change its playlist
\* leaves a bound display's playlist and playback index unchanged: handling
\* a notification that carries the playlist the display already has keeps
\* the index.
C28_OtherUpdatesKeepPlayback ==
  [][\A d \in Displays :
       (NotificationHandled(d) /\ Head(inbox[d]).playlist = playlist[d]) =>
         /\ playlist'[d] = playlist[d]
         /\ currentItemIndex'[d] = currentItemIndex[d]]_vars

----------------------------------------------------------------------------
(* Display client: re-pairing *)

\* C24: the display's index stays in range: whenever a display is bound and
\* its playlist is non-empty, 0 <= currentItemIndex < playlist.length.
C24_IndexInRange ==
  \A d \in Displays :
    (screenId[d] # NULL /\ Len(playlist[d]) > 0) =>
      currentItemIndex[d] \in 0..(Len(playlist[d]) - 1)

\* C25: a bound display only takes the playlist of the screen it is bound
\* to: every notification a bound display handles is one for its current
\* screen.
C25_OnlyBoundScreenPlays ==
  [][\A d \in Displays :
       (NotificationHandled(d) /\ screenId[d] # NULL) =>
         Head(inbox[d]).screen = screenId[d]]_vars

----------------------------------------------------------------------------
(* Screen editor: preview *)

\* C29: the editor's preview index stays valid: whenever an editor's working
\* playlist is non-empty, 0 <= currentPreviewIndex < playlist.length.
C29_PreviewIndexInRange ==
  \A e \in Editors :
    Len(edPlaylist[e]) > 0 =>
      edPreviewIndex[e] \in 0..(Len(edPlaylist[e]) - 1)

----------------------------------------------------------------------------
(* Owner console: access *)

\* C23: a console page (dashboard, media, screens, screen editor, settings)
\* is rendered only while the auth store holds a session and has finished
\* loading; while loading only the placeholder is shown; with loading over
\* and no session a console route redirects to /login; and /pair shows the
\* display client with no session.
C23_ConsoleNeedsSession ==
  \A b \in Consoles :
    /\ Rendered(b) \in ConsolePages =>
         authSession[b] # NULL /\ ~authLoading[b]
    /\ authLoading[b] => Rendered(b) = Element("Loading application...")
    /\ (~authLoading[b] /\ authSession[b] = NULL
          /\ path[b] \notin {"/login", "/pair", "/pairing-instructions"}) =>
         Rendered(b) = Navigate("/login")
    /\ (~authLoading[b] /\ authSession[b] = NULL /\ path[b] = "/pair") =>
         Rendered(b) = Element("DisplayClientPage")

\* one console shows the screens page with a session, the other has ended
\* loading with no session and stands on a console route
C23_Witness ==
  /\ Rendered("B1") = Element("ScreensPage")
  /\ authSession["B1"] = Owner
  /\ ~authLoading["B2"]
  /\ authSession["B2"] = NULL
  /\ path["B2"] = "/settings"

----------------------------------------------------------------------------
(* Owner console: uploads *)

\* a drop onto screen s's card in console b runs to its end with success
CardDropSucceeds(b, s) ==
  \E file \in DroppedFiles : CardDrop(b, s, file, "none")

\* C27: media dropped onto a screen card accumulates: a successful drop
\* leaves the persisted playlist as the playlist persisted before it followed
\* by one new item.
C27_DropsAccumulate ==
  [][\A b \in Consoles : \A s \in Screens :
       CardDropSucceeds(b, s) =>
         /\ Len(screens'[s].playlist) = Len(screens[s].playlist) + 1
         /\ SubSeq(screens'[s].playlist, 1, Len(screens[s].playlist)) =
              screens[s].playlist]_vars

\* an upload handler of console b runs to its end, with or without an error
CardDropEnds(b, s) ==
  \E file \in DroppedFiles : \E failing \in {"upload", "insert", "update", "none"} :
    CardDrop(b, s, file, failing)

LibraryDropEnds(b) ==
  \E acceptedFiles \in SUBSET DroppedFiles :
    \E failing \in [acceptedFiles -> {"upload", "insert", "none"}] :
      LibraryDrop(b, acceptedFiles, failing)

\* the file paths of the items of a playlist
PathsIn(pl) == {pl[i].file_path : i \in DOMAIN pl}

\* C30: uploads leave storage and records consistent: when an upload handler
\* ends, every file it stored has a media row pointing to it, and every media
\* row a card drop created is in the screen's persisted playlist.
C30_UploadsLeaveNoOrphan ==
  [][\A b \in Consoles :
       /\ (LibraryDropEnds(b) \/ \E s \in Screens : CardDropEnds(b, s)) =>
            \A f \in storageObjects' \ storageObjects :
              \E m \in mediaRows' : m.file_path = f
       /\ \A s \in Screens :
            CardDropEnds(b, s) =>
              \A m \in mediaRows' \ mediaRows :
                m.file_path \in PathsIn(screens'[s].playlist)]_vars

====
